---------------------------- MODULE Spec2Model ----------------------------
(***************************************************************************)
(* droidrun/tools/coordinate.py: conversion between normalized coordinates *)
(* (range [0, 1000] on each axis) and absolute pixel coordinates of a      *)
(* screen of known size.                                                   *)
(*                                                                         *)
(* Every function of the module is a pure operator that yields an outcome: *)
(* either a returned tuple or a raised exception.  The state machine is a  *)
(* caller that holds one ScreenSize instance, invokes the functions on it  *)
(* and observes each outcome.                                              *)
(***************************************************************************)
EXTENDS Integers, Sequences, FiniteSets

VARIABLES
    screen,   \* the ScreenSize instance the caller holds: [width, height]
    call,     \* the call observed last: [op, args]
    ret,      \* its outcome: [kind, value, exc]
    origin    \* the normalized point the absolute arguments were derived from

vars == <<screen, call, ret, origin>>

(***************************************************************************)
(* Program constants                                                       *)
(***************************************************************************)
NORMALIZED_RANGE == 1000

DefaultWidth == 1080

DefaultHeight == 2400

(***************************************************************************)
(* Bounds of the model                                                     *)
(***************************************************************************)
\* normalized samples lie within Margin of the landmarks 0, 500 and 1000
Margin == 2

\* area corners are sampled every NORMALIZED_RANGE \div AreaSteps units
AreaSteps == 3

\* absolute samples lie within AbsMargin of 0 and of the screen's edges
AbsMargin == 1

\* a malformed bounds string holds at most MaxTokens comma-separated tokens
MaxTokens == 5

\* the round-trip screens include every dimension 1000 .. 1000 + MaxExtra
MaxExtra == 2

(***************************************************************************)
(* Outcomes of a call                                                      *)
(***************************************************************************)
Return(v) == [kind |-> "return", value |-> v, exc |-> "none"]

Raise(e) == [kind |-> "raise", value |-> <<>>, exc |-> e]

\* class CoordinateError(ValueError)
IsInstance(e, cls) ==
    \/ e = cls
    \/ e = "CoordinateError" /\ cls = "ValueError"

(***************************************************************************)
(* Arithmetic of the conversions                                           *)
(***************************************************************************)
Abs(n) == IF n < 0 THEN -n ELSE n

Min(a, b) == IF a < b THEN a ELSE b

Max(a, b) == IF a > b THEN a ELSE b

\* int(a / b): true division, then truncation toward zero (b # 0).  The
\* quotient of integers of this size is exact up to the truncation.
IntTrueDiv(a, b) ==
    IF (a >= 0) = (b > 0) THEN Abs(a) \div Abs(b) ELSE -(Abs(a) \div Abs(b))

\* max(0, min(NORMALIZED_RANGE, n))
Clamp(n) == Max(0, Min(NORMALIZED_RANGE, n))

(***************************************************************************)
(* ScreenSize                                                              *)
(***************************************************************************)
\* ScreenSize(width, height): the generated __init__, then __post_init__
ScreenSize(width, height) ==
    IF width <= 0 THEN Raise("CoordinateError")
    ELSE IF height <= 0 THEN Raise("CoordinateError")
    ELSE Return(<<width, height>>)

\* dict.get(key, default)
Get(d, key, default) == IF key \in DOMAIN d THEN d[key] ELSE default

EmptyDict == [k \in {} |-> 0]

\* the defaults of the two dimensions exchanged
from_device_context_swapped(device_context) ==
    LET screen_bounds == Get(device_context, "screen_bounds", EmptyDict)
        width == Get(screen_bounds, "width", DefaultHeight)
        height == Get(screen_bounds, "height", DefaultWidth)
    IN  IF width <= 0 \/ height <= 0 THEN Raise("CoordinateError")
        ELSE ScreenSize(width, height)

from_device_context(device_context) ==
    LET screen_bounds == Get(device_context, "screen_bounds", EmptyDict)
        width == Get(screen_bounds, "width", DefaultWidth)
        height == Get(screen_bounds, "height", DefaultHeight)
    IN  IF width <= 0 \/ height <= 0 THEN Raise("CoordinateError")
        ELSE ScreenSize(width, height)

(***************************************************************************)
(* Validation and conversion                                               *)
(***************************************************************************)
validate_normalized_coords(x, y) ==
    IF ~(0 <= x /\ x <= NORMALIZED_RANGE) THEN Raise("CoordinateError")
    ELSE IF ~(0 <= y /\ y <= NORMALIZED_RANGE) THEN Raise("CoordinateError")
    ELSE Return(<<>>)

\* width and height exchanged
normalized_to_absolute_swapped(norm_x, norm_y, screen_size) ==
    LET v == validate_normalized_coords(norm_x, norm_y)
    IN  IF v.kind = "raise" THEN v
        ELSE Return(<<IntTrueDiv(norm_x * screen_size.height, NORMALIZED_RANGE),
                      IntTrueDiv(norm_y * screen_size.width, NORMALIZED_RANGE)>>)

\* round() in place of int()
normalized_to_absolute_rounded(norm_x, norm_y, screen_size) ==
    LET v == validate_normalized_coords(norm_x, norm_y)
        half == NORMALIZED_RANGE \div 2
    IN  IF v.kind = "raise" THEN v
        ELSE Return(<<(norm_x * screen_size.width + half) \div NORMALIZED_RANGE,
                      (norm_y * screen_size.height + half) \div NORMALIZED_RANGE>>)

normalized_to_absolute(norm_x, norm_y, screen_size) ==
    LET v == validate_normalized_coords(norm_x, norm_y)
    IN  IF v.kind = "raise" THEN v
        ELSE Return(<<IntTrueDiv(norm_x * screen_size.width, NORMALIZED_RANGE),
                      IntTrueDiv(norm_y * screen_size.height, NORMALIZED_RANGE)>>)

\* the lower clamp left out
absolute_to_normalized_noclamp(abs_x, abs_y, screen_size) ==
    IF screen_size.width = 0 \/ screen_size.height = 0
    THEN Raise("ZeroDivisionError")
    ELSE Return(<<Min(NORMALIZED_RANGE,
                      IntTrueDiv(abs_x * NORMALIZED_RANGE, screen_size.width)),
                  Min(NORMALIZED_RANGE,
                      IntTrueDiv(abs_y * NORMALIZED_RANGE, screen_size.height))>>)

\* both axes scaled by the width
absolute_to_normalized_width(abs_x, abs_y, screen_size) ==
    IF screen_size.width = 0 \/ screen_size.height = 0
    THEN Raise("ZeroDivisionError")
    ELSE Return(<<Clamp(IntTrueDiv(abs_x * NORMALIZED_RANGE, screen_size.width)),
                  Clamp(IntTrueDiv(abs_y * NORMALIZED_RANGE, screen_size.width))>>)

\* a zero dimension, which only a mutated instance has, divides by zero
absolute_to_normalized(abs_x, abs_y, screen_size) ==
    IF screen_size.width = 0 \/ screen_size.height = 0
    THEN Raise("ZeroDivisionError")
    ELSE Return(<<Clamp(IntTrueDiv(abs_x * NORMALIZED_RANGE, screen_size.width)),
                  Clamp(IntTrueDiv(abs_y * NORMALIZED_RANGE, screen_size.height))>>)

\* a degenerate area refused
validate_normalized_area_strict(x1, y1, x2, y2) ==
    LET tl == validate_normalized_coords(x1, y1)
        br == validate_normalized_coords(x2, y2)
    IN  IF tl.kind = "raise" THEN tl
        ELSE IF br.kind = "raise" THEN br
        ELSE IF x1 >= x2 THEN Raise("CoordinateError")
        ELSE IF y1 >= y2 THEN Raise("CoordinateError")
        ELSE Return(<<>>)

validate_normalized_area(x1, y1, x2, y2) ==
    LET tl == validate_normalized_coords(x1, y1)
        br == validate_normalized_coords(x2, y2)
    IN  IF tl.kind = "raise" THEN tl
        ELSE IF br.kind = "raise" THEN br
        ELSE IF x1 > x2 THEN Raise("CoordinateError")
        ELSE IF y1 > y2 THEN Raise("CoordinateError")
        ELSE Return(<<>>)

\* the midpoint rounded up
normalized_area_to_center_ceil(x1, y1, x2, y2, screen_size) ==
    LET v == validate_normalized_area(x1, y1, x2, y2)
        center_norm_x == (x1 + x2 + 1) \div 2
        center_norm_y == (y1 + y2 + 1) \div 2
    IN  IF v.kind = "raise" THEN v
        ELSE normalized_to_absolute(center_norm_x, center_norm_y, screen_size)

normalized_area_to_center(x1, y1, x2, y2, screen_size) ==
    LET v == validate_normalized_area(x1, y1, x2, y2)
        center_norm_x == (x1 + x2) \div 2
        center_norm_y == (y1 + y2) \div 2
    IN  IF v.kind = "raise" THEN v
        ELSE normalized_to_absolute(center_norm_x, center_norm_y, screen_size)

(***************************************************************************)
(* Bounds strings: a str is a sequence of one-character strings            *)
(***************************************************************************)
Digits == <<"0", "1", "2", "3", "4", "5", "6", "7", "8", "9">>

IsDigit(c) == \E i \in 1..Len(Digits) : Digits[i] = c

DigitValue(c) == (CHOOSE i \in 1..Len(Digits) : Digits[i] = c) - 1

\* str.split(sep) for a one-character sep
RECURSIVE split(_, _)
split(s, sep) ==
    IF \A i \in 1..Len(s) : s[i] # sep THEN <<s>>
    ELSE LET i == CHOOSE k \in 1..Len(s) :
                      s[k] = sep /\ \A j \in 1..(k - 1) : s[j] # sep
         IN  <<SubSeq(s, 1, i - 1)>> \o split(SubSeq(s, i + 1, Len(s)), sep)

\* str.strip() of the blanks int() ignores around a literal
RECURSIVE strip(_)
strip(s) ==
    IF s # <<>> /\ Head(s) = " " THEN strip(Tail(s))
    ELSE IF s # <<>> /\ s[Len(s)] = " " THEN strip(SubSeq(s, 1, Len(s) - 1))
    ELSE s

\* the digits of a literal: at least one, single underscores only between two
IsDigitString(s) ==
    /\ s # <<>>
    /\ \A i \in 1..Len(s) :
          \/ IsDigit(s[i])
          \/ /\ s[i] = "_"
             /\ 1 < i /\ i < Len(s)
             /\ IsDigit(s[i - 1]) /\ IsDigit(s[i + 1])

RECURSIVE DigitStringValue(_, _)
DigitStringValue(s, acc) ==
    IF s = <<>> THEN acc
    ELSE IF Head(s) = "_" THEN DigitStringValue(Tail(s), acc)
    ELSE DigitStringValue(Tail(s), 10 * acc + DigitValue(Head(s)))

\* int(tok): blanks stripped, an optional sign, base-10 digits
int(tok) ==
    LET t == strip(tok)
        signed == t # <<>> /\ Head(t) \in {"+", "-"}
        body == IF signed THEN Tail(t) ELSE t
        magnitude == DigitStringValue(body, 0)
    IN  IF ~IsDigitString(body) THEN Raise("ValueError")
        ELSE IF signed /\ Head(t) = "-" THEN Return(<<-magnitude>>)
        ELSE Return(<<magnitude>>)

\* map(int, ...) is lazy and the unpacking asks it for at most five items:
\* a bad token among them raises before the count is found wrong
bounds_to_normalized(bounds_str, screen_size) ==
    LET tokens == split(bounds_str, ",")
        n == Len(tokens)
        vals == [i \in 1..n |-> int(tokens[i])]
    IN  IF \E i \in 1..Min(n, 5) : vals[i].kind = "raise"
        THEN Raise("ValueError")
        ELSE IF n # 4 THEN Raise("ValueError")
        ELSE LET left == vals[1].value[1]
                 top == vals[2].value[1]
                 right == vals[3].value[1]
                 bottom == vals[4].value[1]
                 tl == absolute_to_normalized(left, top, screen_size)
                 br == absolute_to_normalized(right, bottom, screen_size)
             IN  IF tl.kind = "raise" THEN tl
                 ELSE IF br.kind = "raise" THEN br
                 ELSE Return(<<tl.value[1], tl.value[2],
                               br.value[1], br.value[2]>>)

(***************************************************************************)
(* The inputs the caller draws                                             *)
(***************************************************************************)
\* dimensions offered to the constructor and to attribute assignment
DimVals == {-1, 0, 1, 7, 1080, 2400}

NormVals ==
    UNION {(l - Margin)..(l + Margin) :
              l \in {0, NORMALIZED_RANGE \div 2, NORMALIZED_RANGE}}

AreaVals ==
    {-1, NORMALIZED_RANGE, NORMALIZED_RANGE + 1}
        \cup {k * (NORMALIZED_RANGE \div AreaSteps) : k \in 0..AreaSteps}

AbsVals(screen_size) ==
    {-3000, 3000}
        \cup UNION {(e - AbsMargin)..(e + AbsMargin) :
                       e \in {0, screen_size.width, screen_size.height}}

\* sep.join(tokens)
RECURSIVE join(_, _)
join(tokens, sep) ==
    IF tokens = <<>> THEN <<>>
    ELSE IF Len(tokens) = 1 THEN tokens[1]
    ELSE tokens[1] \o <<sep>> \o join(Tail(tokens), sep)

IntTokens ==
    {<<"-", "5">>, <<"0">>, <<"5", "4", "0">>,
     <<"1", "0", "8", "0">>, <<"2", "4", "0", "0">>}

ShortTokens == {<<"7">>, <<"a">>, <<>>}

OddTokens ==
    {<<" ", "7">>, <<"7", " ">>, <<"+", "9">>, <<"1", "_", "0">>,
     <<"1", ".", "5">>, <<"_", "1">>, <<"-">>, <<"1", "_", "_", "0">>,
     <<"1", " ", "0">>}

BoundsStrings ==
    {join(ts, ",") : ts \in [1..4 -> IntTokens]}
        \cup {join(ts, ",") :
                 ts \in UNION {[1..n -> ShortTokens] : n \in 0..MaxTokens}}
        \cup {join([<<<<"0">>, <<"0">>, <<"7">>, <<"7">>>> EXCEPT ![i] = t], ",") :
                 i \in 1..4, t \in OddTokens}

ScreenBoundsDicts ==
    {EmptyDict}
        \cup {[width |-> w] : w \in DimVals}
        \cup {[height |-> h] : h \in DimVals}
        \cup {[width |-> w, height |-> h] : w \in DimVals, h \in DimVals}

DeviceContexts ==
    {EmptyDict} \cup {[screen_bounds |-> sb] : sb \in ScreenBoundsDicts}

RoundTripDims ==
    {7, NORMALIZED_RANGE - 1, 1080, 2400}
        \cup NORMALIZED_RANGE..(NORMALIZED_RANGE + MaxExtra)

(***************************************************************************)
(* The caller                                                              *)
(***************************************************************************)
NoCall == [op |-> "idle", args |-> <<>>]

NoRet == [kind |-> "none", value |-> <<>>, exc |-> "none"]

Idle == call.op = "idle"

Observe(op, args, outcome, org) ==
    /\ call' = [op |-> op, args |-> args]
    /\ ret' = outcome
    /\ origin' = org

\* the caller holds an instance that ScreenSize(width, height) returned
InitWith(dims) ==
    \E width \in dims, height \in dims :
        /\ ScreenSize(width, height).kind = "return"
        /\ screen = [width |-> width, height |-> height]
        /\ call = [op |-> "ScreenSize", args |-> <<width, height>>]
        /\ ret = ScreenSize(width, height)
        /\ origin = <<>>

Init == InitWith(DimVals)

InitRoundTrip == InitWith(RoundTripDims)

\* screen = ScreenSize(width, height): a raise leaves the caller's instance
Construct(width, height) ==
    LET r == ScreenSize(width, height)
    IN  /\ Observe("ScreenSize", <<width, height>>, r, <<>>)
        /\ screen' = IF r.kind = "return"
                     THEN [width |-> r.value[1], height |-> r.value[2]]
                     ELSE screen

\* screen = ScreenSize.from_device_context(device_context)
FromDeviceContext(device_context) ==
    LET r == from_device_context(device_context)
    IN  /\ Observe("from_device_context", <<device_context>>, r, <<>>)
        /\ screen' = IF r.kind = "return"
                     THEN [width |-> r.value[1], height |-> r.value[2]]
                     ELSE screen

\* screen.<name> = value: the dataclass is not frozen and __post_init__
\* does not run again
SetAttr(name, value) ==
    /\ screen' = [screen EXCEPT ![name] = value]
    /\ Observe("__setattr__", <<name, value>>, Return(<<>>), <<>>)

ValidateNormalizedCoords(x, y) ==
    /\ Observe("validate_normalized_coords", <<x, y>>,
               validate_normalized_coords(x, y), <<>>)
    /\ UNCHANGED screen

NormalizedToAbsolute(norm_x, norm_y) ==
    /\ Observe("normalized_to_absolute", <<norm_x, norm_y, screen>>,
               normalized_to_absolute(norm_x, norm_y, screen), <<>>)
    /\ UNCHANGED screen

AbsoluteToNormalized(abs_x, abs_y) ==
    /\ Observe("absolute_to_normalized", <<abs_x, abs_y, screen>>,
               absolute_to_normalized(abs_x, abs_y, screen), <<>>)
    /\ UNCHANGED screen

\* absolute_to_normalized(*normalized_to_absolute(x, y, screen), screen)
AbsoluteToNormalizedOfResult ==
    /\ call.op = "normalized_to_absolute"
    /\ ret.kind = "return"
    /\ Observe("absolute_to_normalized", <<ret.value[1], ret.value[2], screen>>,
               absolute_to_normalized(ret.value[1], ret.value[2], screen),
               <<call.args[1], call.args[2]>>)
    /\ UNCHANGED screen

ValidateNormalizedArea(x1, y1, x2, y2) ==
    /\ Observe("validate_normalized_area", <<x1, y1, x2, y2>>,
               validate_normalized_area(x1, y1, x2, y2), <<>>)
    /\ UNCHANGED screen

NormalizedAreaToCenter(x1, y1, x2, y2) ==
    /\ Observe("normalized_area_to_center", <<x1, y1, x2, y2, screen>>,
               normalized_area_to_center(x1, y1, x2, y2, screen), <<>>)
    /\ UNCHANGED screen

BoundsToNormalized(bounds_str) ==
    /\ Observe("bounds_to_normalized", <<bounds_str, screen>>,
               bounds_to_normalized(bounds_str, screen), <<>>)
    /\ UNCHANGED screen

\* the caller is done with the outcome and turns to its next call, which
\* it makes when Idle
NextCall ==
    /\ ~Idle
    /\ call' = NoCall
    /\ ret' = NoRet
    /\ origin' = <<>>
    /\ UNCHANGED screen

Next ==
    \/ Idle /\ \E width \in DimVals, height \in DimVals :
                  Construct(width, height)
    \/ Idle /\ \E device_context \in DeviceContexts :
                  FromDeviceContext(device_context)
    \/ Idle /\ \E name \in {"width", "height"}, value \in DimVals :
                  SetAttr(name, value)
    \/ Idle /\ \E x \in NormVals, y \in NormVals :
                  ValidateNormalizedCoords(x, y)
    \/ Idle /\ \E x \in NormVals, y \in NormVals :
                  NormalizedToAbsolute(x, y)
    \/ Idle /\ \E x \in AbsVals(screen), y \in AbsVals(screen) :
                  AbsoluteToNormalized(x, y)
    \/ AbsoluteToNormalizedOfResult
    \/ Idle /\ \E x1 \in AreaVals, y1 \in AreaVals,
                  x2 \in AreaVals, y2 \in AreaVals :
                  ValidateNormalizedArea(x1, y1, x2, y2)
    \/ Idle /\ \E x1 \in AreaVals, y1 \in AreaVals,
                  x2 \in AreaVals, y2 \in AreaVals :
                  NormalizedAreaToCenter(x1, y1, x2, y2)
    \/ Idle /\ \E bounds_str \in BoundsStrings :
                  BoundsToNormalized(bounds_str)
    \/ NextCall

Spec == Init /\ [][Next]_vars

\* every normalized x and every normalized y, on each round-trip screen
NextRoundTrip ==
    \/ Idle /\ \E x \in 0..NORMALIZED_RANGE :
                  NormalizedToAbsolute(x, NORMALIZED_RANGE - x)
    \/ AbsoluteToNormalizedOfResult
    \/ NextCall

SpecRoundTrip == InitRoundTrip /\ [][NextRoundTrip]_vars

(***************************************************************************)
(* Vocabulary of the properties                                            *)
(***************************************************************************)
ValidScreenSize(s) == s.width > 0 /\ s.height > 0

InRange(v) == 0 <= v /\ v <= NORMALIZED_RANGE

RaisedCoordinateError == ret.kind = "raise" /\ IsInstance(ret.exc, "CoordinateError")

Constructors == {"ScreenSize", "from_device_context"}

\* q is n / d truncated toward zero (d > 0)
IsTruncatedQuotient(q, n, d) ==
    /\ Abs(q) * d <= Abs(n)
    /\ Abs(n) < (Abs(q) + 1) * d
    /\ q # 0 => (q > 0) = (n > 0)

\* m is the midpoint of a and b, the lower one when a + b is odd
IsFlooredMidpoint(m, a, b) == 2 * m <= a + b /\ a + b < 2 * m + 2

\* the integers next to half of sum
Around(sum) == ((sum \div 2) - 1)..((sum \div 2) + 1)

\* bounds_str splits on "," into exactly four tokens that int() accepts
SplitsIntoFourIntegers(bounds_str) ==
    LET tokens == split(bounds_str, ",")
    IN  /\ Len(tokens) = 4
        /\ \A i \in 1..4 : int(tokens[i]).kind = "return"

BoundsValue(bounds_str, i) == int(split(bounds_str, ",")[i]).value[1]

(***************************************************************************)
(* C1                                                                      *)
(***************************************************************************)
\* C1: for every ScreenSize S with positive width and height and every
\* normalized (x, y) in [0, 1000]^2,
\* absolute_to_normalized(normalized_to_absolute(x, y, S), S) returns (x', y')
\* with |x' - x| <= 1 and |y' - y| <= 1.
C1_RoundTripWithinOne ==
    (/\ call.op = "absolute_to_normalized"
     /\ origin # <<>>
     /\ ValidScreenSize(call.args[3]))
        => /\ ret.kind = "return"
           /\ Abs(ret.value[1] - origin[1]) <= 1
           /\ Abs(ret.value[2] - origin[2]) <= 1

\* C1 as amended: the round trip returns (x', y') in [0, 1000]^2 with
\* x' <= x and y' <= y, where x - x' <= 1 whenever S.width >= 1000 and
\* y - y' <= 1 whenever S.height >= 1000.
C1_RoundTripWithinOneOnLargeScreen ==
    (/\ call.op = "absolute_to_normalized"
     /\ origin # <<>>
     /\ ValidScreenSize(call.args[3]))
        => /\ ret.kind = "return"
           /\ InRange(ret.value[1]) /\ InRange(ret.value[2])
           /\ ret.value[1] <= origin[1]
           /\ ret.value[2] <= origin[2]
           /\ call.args[3].width >= NORMALIZED_RANGE
                 => origin[1] - ret.value[1] <= 1
           /\ call.args[3].height >= NORMALIZED_RANGE
                 => origin[2] - ret.value[2] <= 1

\* an inexact round trip on 1080x2400: (1, 999) comes back as (0, 998)
C1_Witness ==
    /\ call.op = "absolute_to_normalized"
    /\ origin = <<1, 999>>
    /\ call.args = <<1, 2397, [width |-> 1080, height |-> 2400]>>
    /\ ret = Return(<<0, 998>>)

(***************************************************************************)
(* C2                                                                      *)
(***************************************************************************)
\* C2: bounds_to_normalized fails with a CoordinateError, and returns no
\* result, whenever the bounds string does not split on "," into exactly
\* four integer tokens.
C2_MalformedBoundsRaiseCoordinateError ==
    (/\ call.op = "bounds_to_normalized"
     /\ ~SplitsIntoFourIntegers(call.args[1]))
        => RaisedCoordinateError

(***************************************************************************)
(* C3                                                                      *)
(***************************************************************************)
\* C3: a ScreenSize is immutable and always valid: a construction with a
\* dimension <= 0 fails with CoordinateError and yields no instance, and
\* every other operation, attribute assignment included, leaves the width
\* and the height of the instance unchanged and both > 0.
C3_ScreenSizeImmutableAndValid ==
    [][/\ (/\ call'.op = "ScreenSize"
           /\ (call'.args[1] <= 0 \/ call'.args[2] <= 0))
              => /\ ret'.kind = "raise"
                 /\ IsInstance(ret'.exc, "CoordinateError")
                 /\ screen' = screen
       /\ call'.op \notin Constructors
              => screen' = screen /\ ValidScreenSize(screen')]_vars

C5_NormalizedToAbsoluteOnScreen ==
    (/\ call.op = "normalized_to_absolute"
     /\ ValidScreenSize(call.args[3])
     /\ InRange(call.args[1]) /\ InRange(call.args[2]))
        => /\ ret.kind = "return"
           /\ 0 <= ret.value[1] /\ ret.value[1] <= call.args[3].width
           /\ 0 <= ret.value[2] /\ ret.value[2] <= call.args[3].height

\* the far corner of 1080x2400
C5_Witness ==
    /\ call.op = "normalized_to_absolute"
    /\ call.args = <<NORMALIZED_RANGE, NORMALIZED_RANGE,
                     [width |-> 1080, height |-> 2400]>>
    /\ ret = Return(<<1080, 2400>>)

(***************************************************************************)
(* C6                                                                      *)
(***************************************************************************)
\* C6: normalized_to_absolute(norm_x, norm_y, S) fails with CoordinateError
\* exactly when norm_x or norm_y lies outside [0, 1000]; otherwise it
\* returns (norm_x * S.width / 1000, norm_y * S.height / 1000), each
\* truncated (never rounded to nearest), which on a valid screen is the
\* floor of the quotient.
C6_NormalizedToAbsoluteTruncates ==
    call.op = "normalized_to_absolute"
        => LET norm_x == call.args[1]
               norm_y == call.args[2]
               S == call.args[3]
           IN  IF ~InRange(norm_x) \/ ~InRange(norm_y)
               THEN RaisedCoordinateError
               ELSE /\ ret.kind = "return"
                    /\ IsTruncatedQuotient(ret.value[1], norm_x * S.width,
                                           NORMALIZED_RANGE)
                    /\ IsTruncatedQuotient(ret.value[2], norm_y * S.height,
                                           NORMALIZED_RANGE)
                    /\ ValidScreenSize(S)
                          => ret.value =
                                <<(norm_x * S.width) \div NORMALIZED_RANGE,
                                  (norm_y * S.height) \div NORMALIZED_RANGE>>

\* (500, 500) on 1080x2400 gives (540, 1200)
C6_Witness ==
    /\ call.op = "normalized_to_absolute"
    /\ call.args = <<500, 500, [width |-> 1080, height |-> 2400]>>
    /\ ret = Return(<<540, 1200>>)

(***************************************************************************)
(* C7                                                                      *)
(***************************************************************************)
\* C7: validate_normalized_area(x1, y1, x2, y2) fails, with CoordinateError,
\* if and only if some coordinate lies outside [0, 1000] or x1 > x2 or
\* y1 > y2; an in-range area with x1 <= x2 and y1 <= y2 is accepted, the
\* degenerate one (x1 = x2, y1 = y2) included.
C7_ValidateNormalizedAreaFailsIff ==
    call.op = "validate_normalized_area"
        => LET x1 == call.args[1]
               y1 == call.args[2]
               x2 == call.args[3]
               y2 == call.args[4]
               malformed ==
                   \/ \E v \in {x1, y1, x2, y2} : ~InRange(v)
                   \/ x1 > x2
                   \/ y1 > y2
           IN  /\ ret.kind = "raise" <=> malformed
               /\ ret.kind = "raise" => RaisedCoordinateError
               /\ ret.kind # "raise" => ret = Return(<<>>)

\* a degenerate area is accepted
C7_Witness ==
    /\ call.op = "validate_normalized_area"
    /\ call.args = <<333, 666, 333, 666>>
    /\ ret = Return(<<>>)

(***************************************************************************)
(* C8                                                                      *)
(***************************************************************************)
\* C8: on an area that validate_normalized_area accepts,
\* normalized_area_to_center never fails: the midpoint ((x1 + x2) div 2,
\* (y1 + y2) div 2), floored toward the lower coordinate when the sum is
\* odd, is itself in [0, 1000], and the result is exactly
\* normalized_to_absolute of it; on an area that validate_normalized_area
\* rejects it fails with CoordinateError.
C8_NormalizedAreaToCenterIsMidpoint ==
    call.op = "normalized_area_to_center"
        => LET x1 == call.args[1]
               y1 == call.args[2]
               x2 == call.args[3]
               y2 == call.args[4]
               S == call.args[5]
           IN  IF validate_normalized_area(x1, y1, x2, y2).kind = "return"
               THEN /\ ret.kind = "return"
                    /\ LET mx == CHOOSE m \in Around(x1 + x2) :
                                     IsFlooredMidpoint(m, x1, x2)
                           my == CHOOSE m \in Around(y1 + y2) :
                                     IsFlooredMidpoint(m, y1, y2)
                       IN  /\ x1 <= mx /\ mx <= x2
                           /\ y1 <= my /\ my <= y2
                           /\ InRange(mx) /\ InRange(my)
                           /\ ret = normalized_to_absolute(mx, my, S)
               ELSE RaisedCoordinateError

\* an odd sum on the x axis: the midpoint of 333 and 666 is 499
C8_Witness ==
    /\ call.op = "normalized_area_to_center"
    /\ call.args = <<333, 0, 666, NORMALIZED_RANGE,
                     [width |-> 1080, height |-> 2400]>>
    /\ ret = Return(<<538, 1200>>)

(***************************************************************************)
(* C9                                                                      *)
(***************************************************************************)
\* C9: ScreenSize.from_device_context takes the width and the height, each
\* on its own, from the optional "screen_bounds" mapping, 1080 standing in
\* for a missing width and 2400 for a missing height; it fails with
\* CoordinateError when a resolved dimension is <= 0 and otherwise returns
\* a ScreenSize of exactly the resolved dimensions.
C9_FromDeviceContextResolves ==
    call.op = "from_device_context"
        => LET device_context == call.args[1]
               given(key) ==
                   /\ "screen_bounds" \in DOMAIN device_context
                   /\ key \in DOMAIN device_context["screen_bounds"]
               width == IF given("width")
                        THEN device_context["screen_bounds"]["width"]
                        ELSE 1080
               height == IF given("height")
                         THEN device_context["screen_bounds"]["height"]
                         ELSE 2400
           IN  IF width <= 0 \/ height <= 0
               THEN RaisedCoordinateError
               ELSE /\ ret = Return(<<width, height>>)
                    /\ screen = [width |-> width, height |-> height]

\* an empty context gives 1080x2400
C9_Witness ==
    /\ call.op = "from_device_context"
    /\ call.args = <<EmptyDict>>
    /\ ret = Return(<<1080, 2400>>)
    /\ screen = [width |-> 1080, height |-> 2400]

(***************************************************************************)
(* C10                                                                     *)
(***************************************************************************)
\* the order and the range of what bounds_to_normalized returned
KeepsOrder ==
    /\ ret.kind = "return"
    /\ \A i \in 1..4 : InRange(ret.value[i])
    /\ ret.value[1] <= ret.value[3]
    /\ ret.value[2] <= ret.value[4]
    /\ validate_normalized_area(ret.value[1], ret.value[2],
                                ret.value[3], ret.value[4]) = Return(<<>>)
    /\ normalized_area_to_center(ret.value[1], ret.value[2],
                                 ret.value[3], ret.value[4],
                                 call.args[2]).kind = "return"

\* a well-formed bounds string with left <= right and top <= bottom
OrderedBounds(bounds_str) ==
    /\ SplitsIntoFourIntegers(bounds_str)
    /\ BoundsValue(bounds_str, 1) <= BoundsValue(bounds_str, 3)
    /\ BoundsValue(bounds_str, 2) <= BoundsValue(bounds_str, 4)

\* absolute_to_normalized of a pixel further along either axis is no smaller
\* than what the call returned
Monotone ==
    /\ ret.kind = "return"
    /\ \A b \in AbsVals(call.args[3]) :
          LET further == absolute_to_normalized(b, b, call.args[3])
          IN  /\ further.kind = "return"
              /\ b >= call.args[1] => further.value[1] >= ret.value[1]
              /\ b >= call.args[2] => further.value[2] >= ret.value[2]

\* C10: absolute_to_normalized is monotone non-decreasing in each axis, so
\* for every well-formed bounds string with left <= right and top <= bottom
\* bounds_to_normalized returns (nx1, ny1, nx2, ny2) in [0, 1000]^4 with
\* nx1 <= nx2 and ny1 <= ny2: validate_normalized_area accepts it and
\* normalized_area_to_center of it does not fail.
C10_BoundsToNormalizedKeepsOrder ==
    /\ call.op = "absolute_to_normalized" => Monotone
    /\ (call.op = "bounds_to_normalized" /\ OrderedBounds(call.args[1]))
          => KeepsOrder

\* C10 on the instances whose dimensions are still positive: there the
\* order is kept
C10_KeepsOrderOnValidScreen ==
    /\ (call.op = "absolute_to_normalized" /\ ValidScreenSize(call.args[3]))
          => Monotone
    /\ (/\ call.op = "bounds_to_normalized"
        /\ ValidScreenSize(call.args[2])
        /\ OrderedBounds(call.args[1]))
          => KeepsOrder

\* "0,540,1080,2400" on 1080x2400 is the area (0, 225, 1000, 1000)
C10_Witness ==
    /\ call.op = "bounds_to_normalized"
    /\ call.args = <<join(<<<<"0">>, <<"5", "4", "0">>, <<"1", "0", "8", "0">>,
                            <<"2", "4", "0", "0">>>>, ","),
                     [width |-> 1080, height |-> 2400]>>
    /\ ret = Return(<<0, 225, NORMALIZED_RANGE, NORMALIZED_RANGE>>)

=============================================================================
